---- MODULE Spec2Model ----
(***************************************************************************)
(* State-machine model of lume-lang/architect (src/src/lib.rs): the query  *)
(* registry of a Database, the type-erased result cache of each Query and  *)
(* the cycle-detecting dispatcher call_query.                              *)
(*                                                                         *)
(* Query names and result keys are modelled by their hashes (QueryId,      *)
(* ResultKey); the ids of the model are pairwise different hashes.  A      *)
(* cached value is a pair <<type, payload>>: the concrete type behind      *)
(* Box<dyn Any> and the value.                                             *)
(*                                                                         *)
(* A dispatched call is two steps: CallQuery (call_query up to the         *)
(* invocation of the computation f) and, when f is invoked, the return of  *)
(* f (ReturnValue, ReturnErr) or its panic.  Between the two the running   *)
(* computation may start any operation of the Database, nested calls       *)
(* included.  A panic unwinds the frames of the calling thread up to the   *)
(* place that catches it (std::panic::catch_unwind in a computation or in  *)
(* the top-level caller); call_query runs nothing while it is unwound.     *)
(*                                                                         *)
(* Database hands out &mut Query through an UnsafeCell.  get_or_insert     *)
(* keeps its &mut Query across the call of f, so the reference dangles     *)
(* when f lets the registry drop its queries (clear_all) or move them      *)
(* (an insert that reallocates the HashMap); the insert through it is      *)
(* undefined behaviour and is modelled by its outcomes: the write lands,   *)
(* the write is lost, the process aborts.  The closure `flags` of          *)
(* ensure_query_exists is taken to be pure, as the one the cached_query    *)
(* macro generates.                                                        *)
(*                                                                         *)
(* Spec is one call chain on the operations of Database, SpecMT two call   *)
(* chains interleaved, SpecLive one call chain whose computations end.     *)
(* SpecQ adds the direct reads and writes of the Query objects that        *)
(* Database::query and query_mut hand out, SpecW is a program that calls   *)
(* functions wrapped by #[cached_query] (src/derive/src/cached_query.rs).  *)
(***************************************************************************)
EXTENDS Integers, Sequences, FiniteSets, TLC

\* ---------------------------------------------------------------- bounds
NumQueries == 2
NumKeys == 2
NumVals == 2
MaxDepth == 2
MaxOps == 5
MaxOpsMT == 4
MaxOpsW == 3
MaxOpsQ == 4

\* ------------------------------------------------------------- constants
\* QueryFlags::ALWAYS
ALWAYS == 1

QueryIds == 1..NumQueries
ResultKeys == 1..NumKeys
Threads == {1, 2}
\* The result types T of the model: "T" has NumVals values, "U" has one.
Types == {"T", "U"}
Values == {<<"T", v>> : v \in 1..NumVals} \cup {<<"U", 1>>}
TypeOf(v) == v[1]
NoVal == <<"none", 0>>
\* The flag sets a caller can pass: QueryFlags::empty() and ALWAYS.
FlagSets == {0, ALWAYS}

VARIABLES
    queries,   \* DatabaseInner.queries: QueryId -> Query (registered ids only)
    active,    \* DatabaseInner.active: IndexSet of <<QueryId, ResultKey>>, in insertion order
    stack,     \* per thread: the computations running (call_query frames), outermost first
    pend,      \* per thread: ensure_query_exists between its check and its add_query
    ret,       \* per thread: what the last operation finished gave the code now running
    memo,      \* history: <<id, key>> -> value last returned by the dispatcher since the last clear
    wiped,     \* history: the ids clear_all() has forgotten and no add_query has registered since
    left,      \* number of operations the run may still start
    alive      \* FALSE once a use of a dangling &mut Query has aborted the process

vars == <<queries, active, stack, pend, ret, memo, wiped, left, alive>>

\* ------------------------------------------------------------- maps
EmptyMap == [x \in {} |-> 0]
Put(m, k, v) == [x \in (DOMAIN m) \cup {k} |-> IF x = k THEN v ELSE m[x]]
Drop(m, ks) == [x \in (DOMAIN m) \ ks |-> m[x]]

\* ------------------------------------------------------------- Query
\* Query::new
NewQuery(name, flags) == [name |-> name, flags |-> flags, results |-> EmptyMap]

\* QueryFlags::contains
FlagsContain(flags, bit) == (flags \div bit) % 2 = 1

\* Query::contains
Contains(q, key) == key \in DOMAIN q.results

\* An insert that stores every result under the first key.
InsertFirstKey(q, key, value) == [q EXCEPT !.results = Put(@, 1, value)]

\* Query::insert
Insert(q, key, value) == [q EXCEPT !.results = Put(@, key, value)]

\* A get that hands out the stored value whatever its type.
GetAnyType(q, key, ty) == IF Contains(q, key) THEN q.results[key] ELSE NoVal

\* Query::get: None when the key is absent and when the stored value is not a T
Get(q, key, ty) ==
    IF Contains(q, key) /\ TypeOf(q.results[key]) = ty THEN q.results[key] ELSE NoVal

\* A value_of that hands out the stored value whatever its type.
ValueOfNeverPanics(q, key, ty) == FALSE

\* Query::value_of panics when the stored value is not a T
ValueOfPanics(q, key, ty) == Contains(q, key) /\ TypeOf(q.results[key]) # ty

\* Query::get_or_insert / get_or_insert_result: the condition under which f is invoked
NeedsCompute(q, key) == FlagsContain(q.flags, ALWAYS) \/ ~Contains(q, key)

\* ------------------------------------------------------------- DatabaseInner
\* A check that never finds the query.
QueryNeverExists(name) == FALSE

\* DatabaseInner::query_exists
QueryExists(name) == name \in DOMAIN queries

\* An add_query without its assert.
ReplacesUnchecked(name) == FALSE

\* DatabaseInner::add_query: HashMap::insert returned Some(existing)
Replaces(name) == name \in DOMAIN queries

\* An insert that takes every pair for new.
IsNewAlways(set, pair) == TRUE

\* A membership test that looks at the most recent in-flight pair only.
IsNewLast(set, pair) == Len(set) = 0 \/ set[Len(set)] # pair

\* IndexSet::insert: TRUE iff the pair was not yet in the set
IsNew(set, pair) == \A i \in 1..Len(set) : set[i] # pair

\* A pop that removes nothing.
PopNothing(set) == set

\* IndexSet::pop: removes the last element, if any
Pop(set) == IF Len(set) = 0 THEN set ELSE SubSeq(set, 1, Len(set) - 1)

\* ------------------------------------------------------------- results
NoPend == [name |-> 0, flags |-> 0]
Ret(kind, name, key, val) == [kind |-> kind, name |-> name, key |-> key, val |-> val]
NoRet == Ret("none", 0, 0, NoVal)

Frame(name, key, ty, res) ==
    [name |-> name, key |-> key, ty |-> ty, res |-> res, stale |-> FALSE]

\* A thread runs the code of its innermost computation (or of the top-level
\* caller); it can start an operation when it is not inside ensure_query_exists.
Ready(t) == alive /\ pend[t] = NoPend /\ left > 0

Top(t) == stack[t][Len(stack[t])]

\* Every &mut Query held by a running get_or_insert dangles once the registry
\* has dropped or moved its queries.
Invalidate(st) ==
    [t \in Threads |->
        IF Len(st[t]) = 0 THEN << >>
        ELSE [i \in 1..Len(st[t]) |-> [st[t][i] EXCEPT !.stale = TRUE]]]

\* A panic raised in thread t leaves `depth` frames standing: the frames above
\* are unwound (nothing in call_query runs during unwinding) and the catcher
\* sees the fault.
Unwind(t, depth, kind, name, key) ==
    /\ stack' = [stack EXCEPT ![t] = SubSeq(@, 1, depth)]
    /\ ret' = [ret EXCEPT ![t] = Ret(kind, name, key, NoVal)]

Init ==
    /\ queries = EmptyMap
    /\ active = << >>
    /\ stack = [t \in Threads |-> << >>]
    /\ pend = [t \in Threads |-> NoPend]
    /\ ret = [t \in Threads |-> NoRet]
    /\ memo = EmptyMap
    /\ wiped = {}
    /\ left = MaxOps
    /\ alive = TRUE

\* ------------------------------------------------------------- operations
\* Database::ensure_query_exists, first half: `if !self.read().query_exists(name)`
\* and, when absent, the evaluation of flags().
EnsureCheck(t, name, flags) ==
    /\ Ready(t)
    /\ left' = left - 1
    /\ IF QueryExists(name)
       THEN /\ ret' = [ret EXCEPT ![t] = Ret("ensure", name, 0, NoVal)]
            /\ pend' = pend
       ELSE /\ pend' = [pend EXCEPT ![t] = [name |-> name, flags |-> flags]]
            /\ ret' = ret
    /\ UNCHANGED <<queries, active, stack, memo, wiped, alive>>

\* Database::ensure_query_exists, second half: DatabaseInner::add_query.
\* HashMap::insert stores the new Query first (replacing a Query of that id);
\* the assert on the replaced value then panics.  Inserting a new id may
\* reallocate the table, which moves every Query: std's HashMap reallocates
\* when its load limit is reached, and the ids of the model are only some of
\* the queries a program registers, so whether this insert moves the table is
\* not determined by the state of the model.
EnsureAdd(t) ==
    /\ alive
    /\ pend[t] # NoPend
    /\ LET name == pend[t].name
           fresh == NewQuery(name, pend[t].flags)
       IN /\ queries' = Put(queries, name, fresh)
          /\ pend' = [pend EXCEPT ![t] = NoPend]
          /\ IF Replaces(name)
             THEN \E depth \in 0..Len(stack[t]) : Unwind(t, depth, "duplicate", name, 0)
             ELSE /\ ret' = [ret EXCEPT ![t] = Ret("ensure", name, 0, NoVal)]
                  /\ \E moved \in BOOLEAN : stack' = IF moved THEN Invalidate(stack) ELSE stack
    /\ wiped' = wiped \ {pend[t].name}
    /\ UNCHANGED <<active, memo, left, alive>>

\* A call_query that takes the pair out of the in-flight set when it reports
\* Cycle.
CallQueryCycleRemoves(t, name, key, ty, res) ==
    /\ Ready(t)
    /\ left' = left - 1
    /\ UNCHANGED <<queries, pend, wiped, alive>>
    /\ IF ~IsNew(active, <<name, key>>)
       THEN /\ ret' = [ret EXCEPT ![t] = Ret("cycle", name, key, NoVal)]
            /\ active' = SelectSeq(active, LAMBDA p : p # <<name, key>>)
            /\ UNCHANGED <<stack, memo>>
       ELSE IF ~QueryExists(name)
       THEN \* query_mut: unwrap on None
            /\ active' = Append(active, <<name, key>>)
            /\ \E depth \in 0..Len(stack[t]) : Unwind(t, depth, "unregistered", name, key)
            /\ memo' = memo
       ELSE IF NeedsCompute(queries[name], key)
       THEN \* f is invoked: the computation starts
            /\ Len(stack[t]) < MaxDepth
            /\ active' = Append(active, <<name, key>>)
            /\ stack' = [stack EXCEPT ![t] = Append(@, Frame(name, key, ty, res))]
            /\ ret' = [ret EXCEPT ![t] = NoRet]
            /\ memo' = memo
       ELSE IF ValueOfPanics(queries[name], key, ty)
       THEN /\ active' = Append(active, <<name, key>>)
            /\ \E depth \in 0..Len(stack[t]) : Unwind(t, depth, "mismatch", name, key)
            /\ memo' = memo
       ELSE \* cached entry: value_of, clone, active.pop(), Ok(result)
            /\ active' = Pop(Append(active, <<name, key>>))
            /\ ret' = [ret EXCEPT ![t] = Ret("ok", name, key, queries[name].results[key])]
            /\ memo' = Put(memo, <<name, key>>, queries[name].results[key])
            /\ stack' = stack

\* Database::execute_query (res = FALSE) and Database::execute_query_result
\* (res = TRUE) up to the invocation of the computation f: call_query's test of
\* the in-flight set, query_mut, and get_or_insert's choice between the cached
\* entry and f.
CallQuery(t, name, key, ty, res) ==
    /\ Ready(t)
    /\ left' = left - 1
    /\ UNCHANGED <<queries, pend, wiped, alive>>
    /\ IF ~IsNew(active, <<name, key>>)
       THEN \* return Err(QueryError::Cycle)
            /\ ret' = [ret EXCEPT ![t] = Ret("cycle", name, key, NoVal)]
            /\ UNCHANGED <<active, stack, memo>>
       ELSE IF ~QueryExists(name)
       THEN \* query_mut: unwrap on None
            /\ active' = Append(active, <<name, key>>)
            /\ \E depth \in 0..Len(stack[t]) : Unwind(t, depth, "unregistered", name, key)
            /\ memo' = memo
       ELSE IF NeedsCompute(queries[name], key)
       THEN \* f is invoked: the computation starts
            /\ Len(stack[t]) < MaxDepth
            /\ active' = Append(active, <<name, key>>)
            /\ stack' = [stack EXCEPT ![t] = Append(@, Frame(name, key, ty, res))]
            /\ ret' = [ret EXCEPT ![t] = NoRet]
            /\ memo' = memo
       ELSE IF ValueOfPanics(queries[name], key, ty)
       THEN /\ active' = Append(active, <<name, key>>)
            /\ \E depth \in 0..Len(stack[t]) : Unwind(t, depth, "mismatch", name, key)
            /\ memo' = memo
       ELSE \* cached entry: value_of, clone, active.pop(), Ok(result)
            /\ active' = Pop(Append(active, <<name, key>>))
            /\ ret' = [ret EXCEPT ![t] = Ret("ok", name, key, queries[name].results[key])]
            /\ memo' = Put(memo, <<name, key>>, queries[name].results[key])
            /\ stack' = stack

\* The innermost computation f returns the value v (Ok(v) for a fallible one):
\* self.insert(key, v), value_of, clone, then call_query's active.pop().
\* Through a dangling &mut Query the insert is undefined behaviour: the write
\* is lost, or lands in the Query now registered under the id, or the process
\* aborts.
ReturnValue(t, v, landed) ==
    /\ alive
    /\ pend[t] = NoPend
    /\ Len(stack[t]) > 0
    /\ TypeOf(v) = Top(t).ty
    /\ LET fr == Top(t) IN
       /\ IF ~fr.stale
          THEN /\ landed
               /\ queries' = [queries EXCEPT ![fr.name] = Insert(@, fr.key, v)]
          ELSE IF landed
          THEN /\ QueryExists(fr.name)
               /\ queries' = [queries EXCEPT ![fr.name] = Insert(@, fr.key, v)]
          ELSE queries' = queries
       /\ stack' = [stack EXCEPT ![t] = SubSeq(@, 1, Len(@) - 1)]
       /\ active' = Pop(active)
       /\ ret' = [ret EXCEPT ![t] = Ret("ok", fr.name, fr.key, v)]
       /\ memo' = Put(memo, <<fr.name, fr.key>>, v)
    /\ UNCHANGED <<pend, wiped, left, alive>>

\* The process aborts on the use of a dangling &mut Query.
Abort(t) ==
    /\ alive
    /\ pend[t] = NoPend
    /\ Len(stack[t]) > 0
    /\ Top(t).stale
    /\ alive' = FALSE
    /\ UNCHANGED <<queries, active, stack, pend, ret, memo, wiped, left>>

\* A call_query that reports the failure of the computation as a cycle.
ReturnErrAsCycle(t) ==
    /\ alive
    /\ pend[t] = NoPend
    /\ Len(stack[t]) > 0
    /\ Top(t).res
    /\ stack' = [stack EXCEPT ![t] = SubSeq(@, 1, Len(@) - 1)]
    /\ active' = Pop(active)
    /\ ret' = [ret EXCEPT ![t] = Ret("cycle", Top(t).name, Top(t).key, NoVal)]
    /\ UNCHANGED <<queries, pend, memo, wiped, left, alive>>

\* The innermost computation of execute_query_result returns Err(e): `f()?`
\* leaves get_or_insert_result before the insert, call_query pops and returns
\* Ok(Err(e)).
ReturnErr(t) ==
    /\ alive
    /\ pend[t] = NoPend
    /\ Len(stack[t]) > 0
    /\ Top(t).res
    /\ stack' = [stack EXCEPT ![t] = SubSeq(@, 1, Len(@) - 1)]
    /\ active' = Pop(active)
    /\ ret' = [ret EXCEPT ![t] = Ret("err", Top(t).name, Top(t).key, NoVal)]
    /\ UNCHANGED <<queries, pend, memo, wiped, left, alive>>

\* The innermost computation panics (or lets a panic of a nested call pass);
\* the panic is caught with `depth` frames left.
Panic(t, depth) ==
    /\ alive
    /\ pend[t] = NoPend
    /\ Len(stack[t]) > 0
    /\ depth < Len(stack[t])
    /\ Unwind(t, depth, "panic", Top(t).name, Top(t).key)
    /\ UNCHANGED <<queries, active, pend, memo, wiped, left, alive>>

\* Database::clear
Clear(t, name) ==
    /\ Ready(t)
    /\ left' = left - 1
    /\ IF QueryExists(name)
       THEN /\ queries' = [queries EXCEPT ![name].results = EmptyMap]
            /\ ret' = [ret EXCEPT ![t] = Ret("clear", name, 0, NoVal)]
            /\ memo' = Drop(memo, {name} \X ResultKeys)
            /\ stack' = stack
       ELSE /\ \E depth \in 0..Len(stack[t]) : Unwind(t, depth, "unregistered", name, 0)
            /\ UNCHANGED <<queries, memo>>
    /\ UNCHANGED <<active, pend, wiped, alive>>

\* Database::clear_all: HashMap::clear drops every Query
ClearAll(t) ==
    /\ Ready(t)
    /\ left' = left - 1
    /\ queries' = EmptyMap
    /\ stack' = Invalidate(stack)
    /\ ret' = [ret EXCEPT ![t] = Ret("clear_all", 0, 0, NoVal)]
    /\ memo' = EmptyMap
    /\ wiped' = wiped \cup DOMAIN queries
    /\ UNCHANGED <<active, pend, alive>>

\* Database::query / Database::query_mut: unwrap on an unregistered name
QueryMut(t, name) ==
    /\ Ready(t)
    /\ left' = left - 1
    /\ IF QueryExists(name)
       THEN /\ ret' = [ret EXCEPT ![t] = Ret("query", name, 0, NoVal)]
            /\ stack' = stack
       ELSE \E depth \in 0..Len(stack[t]) : Unwind(t, depth, "unregistered", name, 0)
    /\ UNCHANGED <<queries, active, pend, memo, wiped, alive>>

\* db.query(name).get::<_, T>(&key): the exploratory read of a Query
QueryGet(t, name, key, ty) ==
    /\ Ready(t)
    /\ left' = left - 1
    /\ IF QueryExists(name)
       THEN /\ ret' = [ret EXCEPT ![t] = Ret("get", name, key, Get(queries[name], key, ty))]
            /\ stack' = stack
       ELSE \E depth \in 0..Len(stack[t]) : Unwind(t, depth, "unregistered", name, key)
    /\ UNCHANGED <<queries, active, pend, memo, wiped, alive>>

\* db.query_mut(name).insert(&key, v): the direct write of a Query
QueryInsert(t, name, key, v) ==
    /\ Ready(t)
    /\ left' = left - 1
    /\ IF QueryExists(name)
       THEN /\ queries' = [queries EXCEPT ![name] = Insert(@, key, v)]
            /\ ret' = [ret EXCEPT ![t] = Ret("insert", name, key, v)]
            /\ stack' = stack
       ELSE /\ \E depth \in 0..Len(stack[t]) : Unwind(t, depth, "unregistered", name, key)
            /\ queries' = queries
    /\ UNCHANGED <<active, pend, memo, wiped, alive>>

\* ------------------------------------------------------------- cached_query
\* A wrapper whose Cycle arm always panics, on_cycle or not.
HandleCycleAlwaysPanics(t, st, name, key, fb) ==
    /\ ret' = [ret EXCEPT ![t] = Ret("no_on_cycle", name, key, NoVal)]
    /\ \E depth \in 0..Len(st[t]) : stack' = [st EXCEPT ![t] = SubSeq(@, 1, depth)]

\* The Cycle arm of the generated match, the computations in progress being
\* st: `return on_cycle(db)` when the attribute names a fallback (fb is its
\* value), else the panic that names the query.
HandleCycle(t, st, name, key, fb) ==
    IF fb # NoVal
    THEN /\ ret' = [ret EXCEPT ![t] = Ret("fallback", name, key, fb)]
         /\ stack' = st
    ELSE /\ ret' = [ret EXCEPT ![t] = Ret("no_on_cycle", name, key, NoVal)]
         /\ \E depth \in 0..Len(st[t]) : stack' = [st EXCEPT ![t] = SubSeq(@, 1, depth)]

\* The registry after ensure_query_exists(name, flags) in one call chain.
Ensured(name, flags) ==
    IF QueryExists(name) THEN queries ELSE Put(queries, name, NewQuery(name, flags))

\* A function wrapped by #[cached_query], called in one call chain, up to the
\* invocation of its body (the computation) or, when the body is not invoked,
\* to its return: ensure_query_exists, then execute_query (res = FALSE) or
\* execute_query_result (res = TRUE), then the match on the dispatcher's
\* result.  fb is the value of the on_cycle fallback, NoVal without one.
\* add_query of a new name may move the registered queries (see EnsureAdd).
CachedQuery(t, name, key, ty, res, flags, fb) ==
    /\ Ready(t)
    /\ left' = left - 1
    /\ fb # NoVal => TypeOf(fb) = ty
    /\ queries' = Ensured(name, flags)
    /\ wiped' = wiped \ {name}
    /\ UNCHANGED <<pend, alive>>
    /\ \E moved \in BOOLEAN :
        /\ moved => ~QueryExists(name)
        /\ LET st == IF moved THEN Invalidate(stack) ELSE stack
               q == Ensured(name, flags)[name]
           IN IF ~IsNew(active, <<name, key>>)
              THEN /\ HandleCycle(t, st, name, key, fb)
                   /\ UNCHANGED <<active, memo>>
              ELSE IF NeedsCompute(q, key)
              THEN /\ Len(stack[t]) < MaxDepth
                   /\ active' = Append(active, <<name, key>>)
                   /\ stack' = [st EXCEPT ![t] = Append(@, Frame(name, key, ty, res))]
                   /\ ret' = [ret EXCEPT ![t] = NoRet]
                   /\ memo' = memo
              ELSE IF ValueOfPanics(q, key, ty)
              THEN /\ active' = Append(active, <<name, key>>)
                   /\ \E depth \in 0..Len(stack[t]) : Unwind(t, depth, "mismatch", name, key)
                   /\ memo' = memo
              ELSE /\ active' = Pop(Append(active, <<name, key>>))
                   /\ ret' = [ret EXCEPT ![t] = Ret("ok", name, key, q.results[key])]
                   /\ memo' = Put(memo, <<name, key>>, q.results[key])
                   /\ stack' = stack

\* ------------------------------------------------------------- claims
\* The query `name` is registered without the ALWAYS flag.
Memoizing(name) == QueryExists(name) /\ ~FlagsContain(queries[name].flags, ALWAYS)

\* The dispatcher has returned a value for <<name, key>> and no clear(name) or
\* clear_all() has run since.
Returned(name, key) == <<name, key>> \in DOMAIN memo

\* C1: memoization.  For a registered query without ALWAYS, once the dispatcher
\* has returned v for (name, key) and until the next clear(name) or clear_all(),
\* every execute_query / execute_query_result for (name, key) with v's type
\* returns v without invoking its computation, and the cached entry stays v.
C1_Memoization ==
    [][\A name \in QueryIds, key \in ResultKeys :
        (Memoizing(name) /\ Returned(name, key)) =>
            /\ \A res \in BOOLEAN :
                 CallQuery(1, name, key, TypeOf(memo[<<name, key>>]), res) =>
                     /\ ret'[1] = Ret("ok", name, key, memo[<<name, key>>])
                     /\ stack' = stack
            /\ Contains(queries[name], key)
            /\ queries[name].results[key] = memo[<<name, key>>]
      ]_vars

\* The pairs of the computations thread t is running.
Running(t) == {<<stack[t][i].name, stack[t][i].key>> : i \in 1..Len(stack[t])}

C3_ReleasedOnEveryExit ==
    \A i \in 1..Len(active) : active[i] \in Running(1)

\* The query `name` is registered with the ALWAYS flag.
Recomputing(name) == QueryExists(name) /\ FlagsContain(queries[name].flags, ALWAYS)

\* C4: always-recompute.  For a query registered with ALWAYS, every dispatched
\* call whose pair is not being computed (not a cycle) invokes its computation,
\* and when the computation returns v the entry is replaced by v and v is
\* returned.
C4_AlwaysRecomputes ==
    [][/\ \A name \in QueryIds, key \in ResultKeys, ty \in Types, res \in BOOLEAN :
             (/\ Recomputing(name)
              /\ <<name, key>> \notin Running(1)
              /\ CallQuery(1, name, key, ty, res)) =>
                 stack'[1] = Append(stack[1], Frame(name, key, ty, res))
       /\ \A v \in Values, landed \in BOOLEAN :
             (/\ Len(stack[1]) > 0
              /\ Recomputing(Top(1).name)
              /\ ReturnValue(1, v, landed)) =>
                 /\ ret'[1] = Ret("ok", Top(1).name, Top(1).key, v)
                 /\ Top(1).name \in DOMAIN queries'
                 /\ Top(1).key \in DOMAIN queries'[Top(1).name].results
                 /\ queries'[Top(1).name].results[Top(1).key] = v
      ]_vars

\* C5: error short-circuit.  When the computation of a fallible call returns an
\* error, the registry and every cache are as they were, the error is what the
\* caller gets, and the pair is no longer in flight, so that the next call for
\* it is not reported as Cycle and runs its computation again.
C5_ErrorShortCircuit ==
    [][(Len(stack[1]) > 0 /\ ReturnErr(1)) =>
           /\ queries' = queries
           /\ ret'[1] = Ret("err", Top(1).name, Top(1).key, NoVal)
           /\ IsNew(active', <<Top(1).name, Top(1).key>>)
           /\ QueryExists(Top(1).name) => NeedsCompute(queries'[Top(1).name], Top(1).key)
      ]_vars

\* C6: clear of one bucket.  clear(name) on a registered query empties the
\* results of that query and changes nothing else (same registered ids, same
\* name and flags, every other query as it was); a dispatched call for any key
\* that was cached, and whose pair is not being computed, then invokes its
\* computation.
C6_ClearOneBucket ==
    [][\A name \in QueryIds :
        (QueryExists(name) /\ Clear(1, name)) =>
            /\ queries' = [queries EXCEPT ![name].results = EmptyMap]
            /\ active' = active
            /\ \A key \in DOMAIN queries[name].results :
                 <<name, key>> \notin Running(1) =>
                     /\ IsNew(active', <<name, key>>)
                     /\ NeedsCompute(queries'[name], key)
      ]_vars

\* C7: clear_all.  clear_all() leaves no query registered; on a name it has
\* forgotten, until ensure_query_exists registers the name again, a dispatched
\* call (for a pair not being computed), query / query_mut and clear end in the
\* unregistered-access fault; the registration creates the query with no
\* entry, and the first access of every key whose pair is not being computed
\* then invokes its computation.
C7_ClearAll ==
    [][/\ ClearAll(1) => queries' = EmptyMap
       /\ \A name \in wiped :
            /\ \A key \in ResultKeys, ty \in Types, res \in BOOLEAN :
                 (<<name, key>> \notin Running(1) /\ CallQuery(1, name, key, ty, res)) =>
                     ret'[1] = Ret("unregistered", name, key, NoVal)
            /\ QueryMut(1, name) => ret'[1] = Ret("unregistered", name, 0, NoVal)
            /\ Clear(1, name) => ret'[1] = Ret("unregistered", name, 0, NoVal)
            /\ (pend[1].name = name /\ EnsureAdd(1)) =>
                 \A key \in ResultKeys :
                     <<name, key>> \notin Running(1) =>
                         /\ IsNew(active', <<name, key>>)
                         /\ NeedsCompute(queries'[name], key)
      ]_vars

\* C8: idempotent, lazy registration in one call chain.  ensure_query_exists on
\* a registered name evaluates no flags and changes nothing; on an unregistered
\* name it evaluates flags once and add_query creates exactly one empty query
\* with those flags, leaving the other queries alone; the duplicate-name fault
\* is never raised.
C8_IdempotentRegistration ==
    [][/\ \A name \in QueryIds, flags \in FlagSets :
            EnsureCheck(1, name, flags) =>
                /\ UNCHANGED <<queries, active, stack>>
                /\ IF name \in DOMAIN queries
                   THEN pend' = pend /\ ret'[1] = Ret("ensure", name, 0, NoVal)
                   ELSE pend'[1] = [name |-> name, flags |-> flags]
       /\ EnsureAdd(1) =>
            /\ pend[1].name \notin DOMAIN queries
            /\ queries' = Put(queries, pend[1].name, NewQuery(pend[1].name, pend[1].flags))
            /\ ret'[1] = Ret("ensure", pend[1].name, 0, NoVal)
       /\ ret'[1].kind # "duplicate"
      ]_vars

\* ensure_query_exists has returned for a query that holds a cached entry: a
\* repeated registration that left flags and entries alone.
C8_Witness ==
    /\ ret[1].kind = "ensure"
    /\ ret[1].name \in DOMAIN queries
    /\ queries[ret[1].name].flags = ALWAYS
    /\ queries[ret[1].name].results # EmptyMap

\* C9: registration race.  With two threads, add_query raises the
\* duplicate-name fault exactly when the name was registered between the
\* caller's check and its insert; both threads can pass the check for the same
\* unregistered name, and the second add_query then faults.
C9_RegistrationRace ==
    [][\A t \in Threads :
        EnsureAdd(t) =>
            (ret'[t].kind = "duplicate") = (pend[t].name \in DOMAIN queries)
      ]_vars

\* Both threads called ensure_query_exists for the same name: one registered
\* it, the other got the duplicate-name fault.
C9_Witness ==
    /\ ret[1] = Ret("ensure", 1, 0, NoVal)
    /\ ret[2] = Ret("duplicate", 1, 0, NoVal)

\* The entry of <<name, key>> in a registry: the value, or NoVal.
Entry(qs, name, key) ==
    IF name \in DOMAIN qs /\ key \in DOMAIN qs[name].results
    THEN qs[name].results[key] ELSE NoVal

\* The step is a step of a dispatched call for <<name, key>> in thread t: its
\* start (CallQuery) or the return of its computation.
Dispatch(t, name, key) ==
    \/ \E ty \in Types, res \in BOOLEAN : CallQuery(t, name, key, ty, res)
    \/ /\ Len(stack[t]) > 0
       /\ <<Top(t).name, Top(t).key>> = <<name, key>>
       /\ \/ \E v \in Values, landed \in BOOLEAN : ReturnValue(t, v, landed)
          \/ ReturnErr(t)

\* C10: entry isolation.  A step of a dispatched call for (name, key) changes
\* no entry but that of (name, key), registers and forgets nothing and changes
\* no flags; a value it returns from the cache is the entry of (name, key).
C10_EntryIsolation ==
    [][\A name \in QueryIds, key \in ResultKeys :
        Dispatch(1, name, key) =>
            /\ DOMAIN queries' = DOMAIN queries
            /\ \A n \in DOMAIN queries : queries'[n].flags = queries[n].flags
            /\ \A n \in QueryIds, k \in ResultKeys :
                 <<n, k>> # <<name, key>> => Entry(queries', n, k) = Entry(queries, n, k)
            /\ (ret'[1].kind = "ok" /\ stack' = stack) =>
                 ret'[1].val = Entry(queries, name, key)
      ]_vars

\* A call returned the entry of (1, 1) while a different value is cached under
\* another key of query 1 and under key 1 of query 2.
C10_Witness ==
    /\ ret[1].kind = "ok"
    /\ <<ret[1].name, ret[1].key>> = <<1, 1>>
    /\ Entry(queries, 1, 1) = ret[1].val
    /\ Entry(queries, 1, 2) \notin {NoVal, ret[1].val}
    /\ Entry(queries, 2, 1) \notin {NoVal, ret[1].val}

\* C11: legitimate re-entrancy.  A call dispatched by a running computation for
\* a pair that no running computation has (another key, or another query) is
\* not reported as Cycle; on a registered query it invokes its computation
\* on top of the outer ones or returns its cached entry, and leaves the outer
\* computations as they were; when a computation whose &mut Query is intact
\* returns v, v is cached under its pair and returned.
C11_Reentrancy ==
    [][/\ \A name \in QueryIds, key \in ResultKeys, ty \in Types, res \in BOOLEAN :
             (/\ Len(stack[1]) > 0
              /\ <<name, key>> \notin Running(1)
              /\ CallQuery(1, name, key, ty, res)) =>
                 /\ ret'[1].kind # "cycle"
                 /\ (QueryExists(name) /\ NeedsCompute(queries[name], key)) =>
                        stack'[1] = Append(stack[1], Frame(name, key, ty, res))
                 /\ ret'[1].kind = "ok" =>
                        /\ stack' = stack
                        /\ ret'[1].val = Entry(queries, name, key)
       /\ \A v \in Values, landed \in BOOLEAN :
             (Len(stack[1]) > 0 /\ ~Top(1).stale /\ ReturnValue(1, v, landed)) =>
                 /\ Entry(queries', Top(1).name, Top(1).key) = v
                 /\ ret'[1] = Ret("ok", Top(1).name, Top(1).key, v)
                 /\ stack'[1] = SubSeq(stack[1], 1, Len(stack[1]) - 1)
      ]_vars

\* The pair is in the in-flight set.
InFlight(name, key) == \E i \in 1..Len(active) : active[i] = <<name, key>>

OtherType(name, key, ty) ==
    Entry(queries, name, key) # NoVal /\ TypeOf(Entry(queries, name, key)) # ty

C14_UnregisteredAccess ==
    [][\A name \in QueryIds :
        ~QueryExists(name) =>
            /\ QueryMut(1, name) =>
                 ret'[1] = Ret("unregistered", name, 0, NoVal) /\ queries' = queries
            /\ Clear(1, name) =>
                 ret'[1] = Ret("unregistered", name, 0, NoVal) /\ queries' = queries
            /\ \A key \in ResultKeys, ty \in Types, res \in BOOLEAN :
                 (<<name, key>> \notin Running(1) /\ CallQuery(1, name, key, ty, res)) =>
                     /\ ret'[1] = Ret("unregistered", name, key, NoVal)
                     /\ queries' = queries
      ]_vars

\* C15: cycle handling in the generated wrapper.  The wrapper registers the
\* query (ensure_query_exists) before it dispatches, so its call never ends in
\* the unregistered-access fault and a query it registers gets the flags of
\* the attribute; when the dispatcher reports Cycle (the pair is in the
\* in-flight set) the wrapper returns the on_cycle value, storing nothing and
\* starting no computation, or without on_cycle panics naming the query; when
\* the dispatcher does not report Cycle the wrapper does neither.
C15_WrapperCycle ==
    [][\A name \in QueryIds, key \in ResultKeys, ty \in Types, res \in BOOLEAN,
          flags \in FlagSets, fb \in Values \cup {NoVal} :
        CachedQuery(1, name, key, ty, res, flags, fb) =>
            /\ name \in DOMAIN queries'
            /\ queries'[name].flags = IF QueryExists(name) THEN queries[name].flags ELSE flags
            /\ ret'[1].kind # "unregistered"
            /\ IF InFlight(name, key)
               THEN /\ active' = active
                    /\ \A n \in QueryIds, k \in ResultKeys :
                          Entry(queries', n, k) = Entry(queries, n, k)
                    /\ IF fb # NoVal
                       THEN /\ ret'[1] = Ret("fallback", name, key, fb)
                            /\ Len(stack'[1]) = Len(stack[1])
                       ELSE /\ ret'[1] = Ret("no_on_cycle", name, key, NoVal)
                            /\ Len(stack'[1]) <= Len(stack[1])
               ELSE ret'[1].kind \notin {"fallback", "no_on_cycle", "cycle"}
      ]_vars

\* A wrapped function called itself with the same key while its body was
\* running: the inner call returned the on_cycle value and the entry of the
\* pair is still absent.
C15_Witness ==
    /\ ret[1].kind = "fallback"
    /\ Len(stack[1]) = 1
    /\ <<stack[1][1].name, stack[1][1].key>> = <<ret[1].name, ret[1].key>>
    /\ Entry(queries, ret[1].name, ret[1].key) = NoVal

\* C16: global cycle guard.  With two call chains on one Database, a call
\* dispatched by one chain for the pair of a computation the other chain is
\* still running is reported as Cycle and invokes no computation.
C16_GlobalCycleGuard ==
    [][\A t \in Threads, u \in Threads :
        t # u =>
            \A i \in 1..Len(stack[u]), ty \in Types, res \in BOOLEAN :
                CallQuery(t, stack[u][i].name, stack[u][i].key, ty, res) =>
                    /\ ret'[t] = Ret("cycle", stack[u][i].name, stack[u][i].key, NoVal)
                    /\ stack' = stack
      ]_vars

\* The in-flight set without the (only) occurrence of the pair.
Without(set, pair) == SelectSeq(set, LAMBDA p : p # pair)

\* The in-flight set holds exactly the pairs of the calls that are running,
\* each once.
OnlyRunning ==
    /\ \A i \in 1..Len(active) : \E t \in Threads : active[i] \in Running(t)
    /\ \A t \in Threads : \A p \in Running(t) : InFlight(p[1], p[2])
    /\ Len(active) = Len(stack[1]) + Len(stack[2])

\* C17: each call removes its own pair.  In every interleaving of the calls of
\* two call chains, as long as the in-flight set holds exactly the pairs of
\* the running calls, the call that finishes removes the pair it added and no
\* other, so that the set again holds exactly the pairs of the running calls.
C17_RemovesOwnPair ==
    [][\A t \in Threads :
        (/\ OnlyRunning
         /\ Len(stack[t]) > 0
         /\ \/ \E v \in Values, landed \in BOOLEAN : ReturnValue(t, v, landed)
            \/ ReturnErr(t)) =>
            /\ active' = Without(active, <<Top(t).name, Top(t).key>>)
            /\ OnlyRunning'
      ]_vars

\* C18: exploratory read and direct write.  Query::get<T>(key) returns the
\* stored value when the key holds a value of type T and no value when the
\* key is absent or holds a value of another type; it never faults and
\* changes neither the caches nor the in-flight set nor the running
\* computations.  Query::insert then makes the value the entry of the key,
\* whatever the type of the old entry, and changes no other entry.
C18_SoftMiss ==
    [][/\ \A name \in QueryIds, key \in ResultKeys, ty \in Types :
             (QueryExists(name) /\ QueryGet(1, name, key, ty)) =>
                 /\ ret'[1].kind = "get"
                 /\ ret'[1].val =
                        IF /\ Entry(queries, name, key) # NoVal
                           /\ TypeOf(Entry(queries, name, key)) = ty
                        THEN Entry(queries, name, key) ELSE NoVal
                 /\ UNCHANGED <<queries, active, stack>>
       /\ \A name \in QueryIds, key \in ResultKeys, v \in Values :
             (QueryExists(name) /\ QueryInsert(1, name, key, v)) =>
                 /\ Entry(queries', name, key) = v
                 /\ \A n \in QueryIds, k \in ResultKeys :
                       <<n, k>> # <<name, key>> => Entry(queries', n, k) = Entry(queries, n, k)
                 /\ DOMAIN queries' = DOMAIN queries
                 /\ UNCHANGED <<active, stack>>
      ]_vars

\* A running computation read a key that holds a value of another type than
\* the one it asked for: it got no value, and the entry is still there.
C18_Witness ==
    /\ ret[1].kind = "get"
    /\ ret[1].val = NoVal
    /\ Entry(queries, ret[1].name, ret[1].key) # NoVal
    /\ Len(stack[1]) > 0
    /\ Len(active) > 0

\* The pairs of the dispatched calls thread t is running, outermost first.
StackPairs(t) ==
    IF Len(stack[t]) = 0 THEN << >>
    ELSE [i \in 1..Len(stack[t]) |-> <<stack[t][i].name, stack[t][i].key>>]

\* The in-flight set, in insertion order, is the call stack of the call chain.
Mirror == active = StackPairs(1)

\* What the code running gets from a fatal fault it caught.
Faults == {"unregistered", "mismatch", "panic", "duplicate"}

\* C19: the in-flight set mirrors the call stack.  In one call chain the set
\* is empty at the start, and every step that ends in no fatal fault and
\* starts with the set equal to the sequence of pairs of the running
\* dispatched calls (outermost first) ends so; hence in a chain without fatal
\* fault the set is that sequence at every moment, and empty when no
\* dispatched call is running.  clear(name) never changes the set.
C19_MirrorsCallStack ==
    /\ active = << >> /\ Mirror
    /\ [][/\ (Mirror /\ ret'[1].kind \notin Faults) =>
                /\ Mirror'
                /\ Len(stack'[1]) = 0 => active' = << >>
          /\ \A name \in QueryIds : Clear(1, name) => active' = active
         ]_vars

\* Two nested dispatched calls are running and the inner computation has
\* cleared the caches of a query: the set is the two running pairs, in call
\* order.
C19_Witness ==
    /\ Len(stack[1]) = 2
    /\ active = <<<<stack[1][1].name, stack[1][1].key>>, <<stack[1][2].name, stack[1][2].key>>>>
    /\ ret[1].kind = "clear"

\* No pair occurs twice in the in-flight set.
NoDuplicate == \A i \in 1..Len(active), j \in 1..Len(active) : active[i] = active[j] => i = j

\* The innermost running computation of thread t ends: it returns, fails or
\* panics, or the process aborts on its dangling &mut Query.
Finish(t) ==
    \/ \E v \in Values, landed \in BOOLEAN : ReturnValue(t, v, landed)
    \/ ReturnErr(t)
    \/ \E depth \in 0..MaxDepth : Panic(t, depth)
    \/ Abort(t)

C21_CycleChangesNothing ==
    [][\A name \in QueryIds, key \in ResultKeys, ty \in Types, res \in BOOLEAN :
        (/\ CallQuery(1, name, key, ty, res)
         /\ ret'[1].kind = "cycle") =>
            /\ UNCHANGED <<queries, active, stack, pend, memo>>
            /\ InFlight(name, key)'
            /\ \A i \in 1..Len(stack[1]) : InFlight(stack[1][i].name, stack[1][i].key)'
      ]_vars

\* A nested call for the pair of the running outer call was reported as Cycle:
\* the outer call is still running, its pair is still the in-flight set and
\* nothing is cached.
C21_Witness ==
    /\ ret[1].kind = "cycle"
    /\ Len(stack[1]) = 1
    /\ <<stack[1][1].name, stack[1][1].key>> = <<ret[1].name, ret[1].key>>
    /\ active = <<<<ret[1].name, ret[1].key>>>>
    /\ Entry(queries, ret[1].name, ret[1].key) = NoVal

\* C22: a duplicate registration leaves the state unchanged.  When add_query
\* raises the duplicate-name fault, the query registered under the name has
\* the flags and the cached entries it had before the call, and so has every
\* other query.
C22_DuplicateKeepsQuery ==
    [][\A t \in Threads :
        (EnsureAdd(t) /\ ret'[t].kind = "duplicate") => queries' = queries
      ]_vars

\* ------------------------------------------------------------- specifications
Step(t) ==
    \/ \E name \in QueryIds, flags \in FlagSets : EnsureCheck(t, name, flags)
    \/ EnsureAdd(t)
    \/ \E name \in QueryIds, key \in ResultKeys, ty \in Types, res \in BOOLEAN :
           CallQuery(t, name, key, ty, res)
    \/ \E v \in Values, landed \in BOOLEAN : ReturnValue(t, v, landed)
    \/ Abort(t)
    \/ ReturnErr(t)
    \/ \E depth \in 0..MaxDepth : Panic(t, depth)
    \/ \E name \in QueryIds : Clear(t, name)
    \/ ClearAll(t)
    \/ \E name \in QueryIds : QueryMut(t, name)

\* One call chain: Database holds an UnsafeCell and is not Sync, safe code uses
\* it from one thread.
Next == Step(1)

Spec == Init /\ [][Next]_vars

\* Two threads sharing one Database (the concurrent use the specification
\* speaks of); the threads interleave between the steps of the operations.
InitMT ==
    /\ queries = EmptyMap
    /\ active = << >>
    /\ stack = [t \in Threads |-> << >>]
    /\ pend = [t \in Threads |-> NoPend]
    /\ ret = [t \in Threads |-> NoRet]
    /\ memo = EmptyMap
    /\ wiped = {}
    /\ left = MaxOpsMT
    /\ alive = TRUE

NextMT == \E t \in Threads : Step(t)

SpecMT == InitMT /\ [][NextMT]_vars

\* One call chain of a program that reaches the Database through functions
\* wrapped by #[cached_query] (and clears caches), as examples/derive.rs does.
InitW ==
    /\ queries = EmptyMap
    /\ active = << >>
    /\ stack = [t \in Threads |-> << >>]
    /\ pend = [t \in Threads |-> NoPend]
    /\ ret = [t \in Threads |-> NoRet]
    /\ memo = EmptyMap
    /\ wiped = {}
    /\ left = MaxOpsW
    /\ alive = TRUE

NextW ==
    \/ \E v \in Values, landed \in BOOLEAN : ReturnValue(1, v, landed)
    \/ Abort(1)
    \/ ReturnErr(1)
    \/ \E depth \in 0..MaxDepth : Panic(1, depth)
    \/ \E name \in QueryIds : Clear(1, name)
    \/ ClearAll(1)
    \/ \E name \in QueryIds, key \in ResultKeys, ty \in Types, res \in BOOLEAN,
          flags \in FlagSets, fb \in Values \cup {NoVal} :
           CachedQuery(1, name, key, ty, res, flags, fb)

SpecW == InitW /\ [][NextW]_vars

\* One call chain that also reads and writes the Query objects directly,
\* through Database::query and Database::query_mut.
InitQ ==
    /\ queries = EmptyMap
    /\ active = << >>
    /\ stack = [t \in Threads |-> << >>]
    /\ pend = [t \in Threads |-> NoPend]
    /\ ret = [t \in Threads |-> NoRet]
    /\ memo = EmptyMap
    /\ wiped = {}
    /\ left = MaxOpsQ
    /\ alive = TRUE

NextQ ==
    \/ Step(1)
    \/ \E name \in QueryIds, key \in ResultKeys, ty \in Types : QueryGet(1, name, key, ty)
    \/ \E name \in QueryIds, key \in ResultKeys, v \in Values : QueryInsert(1, name, key, v)

SpecQ == InitQ /\ [][NextQ]_vars

\* One call chain in which every computation ends (the closures terminate)
\* and every ensure_query_exists that has passed its check goes on to its
\* insert.
SpecLive == Init /\ [][Next]_vars /\ WF_vars(Finish(1)) /\ WF_vars(EnsureAdd(1))

====
